---- MODULE Spec2Model ----
(***************************************************************************)
(* ZPromise (src/core.js): the promise state machine, the resolution       *)
(* procedure resolveNextPromise, and the setTimeout task queue that runs   *)
(* the reactions registered by then.                                       *)
(*                                                                         *)
(* Every step of Next is one task of the JavaScript event loop: a piece of *)
(* caller code (a constructor call, a then call, a call of a resolve or    *)
(* reject continuation kept by the caller, a foreign thenable calling one  *)
(* of the continuations it was handed) or the timer task at the head of    *)
(* the setTimeout queue.  Everything the code does synchronously inside    *)
(* that task is part of the step.                                          *)
(***************************************************************************)
EXTENDS Naturals, Sequences, FiniteSets

(***************************************************************************)
(* Bounds of the model.                                                    *)
(***************************************************************************)
MaxPromises == 5      \* ZPromise objects ever constructed
MaxCalls == 1         \* invocations of a foreign then by resolveNextPromise
MaxCaller == 3        \* constructor calls and then calls made by caller code

(***************************************************************************)
(* JavaScript values.  Every value is a record [k, i] so that any two      *)
(* values can be compared: k is the kind and i tells values of one kind    *)
(* apart (for "zp" the index of the ZPromise object, for "thenable" the    *)
(* index of the foreign object in ThenableTable).                          *)
(***************************************************************************)
Plain(i) == [k |-> "plain", i |-> i]
Err(i) == [k |-> "error", i |-> i]
ZP(i) == [k |-> "zp", i |-> i]
Thenable(i) == [k |-> "thenable", i |-> i]
Null == [k |-> "null", i |-> 0]
Undefined == [k |-> "undefined", i |-> 0]
TypeErrorCycle == [k |-> "TypeError", i |-> 0]
\* the TypeError of calling something that is not a function
TypeErrorNotFunction == [k |-> "TypeError", i |-> 1]
\* the value "the target promise itself" in a foreign thenable's script
Self == [k |-> "self", i |-> 0]
\* a call of a continuation: op is "res" or "rej", v the value passed
Ev(op, v) == [op |-> op, v |-> v]
\* no exception is propagating
NoExc == [k |-> "noexc", i |-> 0]

(***************************************************************************)
(* Foreign objects.  tag is the class of x that Object.prototype.toString  *)
(* reports ("Object" for a plain object, "Function" for an ordinary        *)
(* function, "Array", ...).  get is what reading x.then does ("fn": yields *)
(* something callable, "throws": the getter throws err, "notfn": yields    *)
(* something that cannot be called) and thenTag the class of what it       *)
(* yields: an ordinary function has "Function", an async function          *)
(* "AsyncFunction", and an object that sets Symbol.toStringTag has the     *)
(* class it names.  For a callable then, sync is what its body does before *)
(* it returns: the continuations it calls, in order, and throws tells      *)
(* whether it then throws err.  A thenable may also keep the continuations *)
(* and call them from later tasks (action ThenableCalls).  ZP(1) is the    *)
(* first promise the caller constructed, which exists whenever a handler   *)
(* can return anything.                                                    *)
(***************************************************************************)
Foreign(tag, get, thenTag, sync, throws) ==
  [tag |-> tag, get |-> get, thenTag |-> thenTag, sync |-> sync, throws |-> throws,
   err |-> Err(1)]

ThenableTable ==
  << Foreign("Object", "fn", "Function", << >>, FALSE),
     Foreign("Object", "fn", "Function",
             << Ev("res", Plain(1)), Ev("res", Plain(2)), Ev("rej", Err(2)) >>, TRUE),
     Foreign("Function", "fn", "Function", << Ev("rej", Err(2)), Ev("res", Plain(1)) >>, FALSE),
     Foreign("Object", "fn", "Function", << >>, TRUE),
     Foreign("Object", "fn", "Function", << Ev("res", Self), Ev("rej", Err(2)) >>, FALSE),
     Foreign("Object", "throws", "Undefined", << >>, FALSE),
     Foreign("Object", "notfn", "Number", << >>, FALSE),
     Foreign("Object", "fn", "Function", << Ev("res", ZP(1)), Ev("rej", Err(2)) >>, TRUE),
     \* an array with a then method
     Foreign("Array", "fn", "Function", << Ev("res", Plain(1)) >>, FALSE),
     \* { then: async function (res) { res(1) } }
     Foreign("Object", "fn", "AsyncFunction", << Ev("res", Plain(1)) >>, FALSE),
     \* { then: { [Symbol.toStringTag]: 'Function' } }
     Foreign("Object", "notfn", "Function", << >>, FALSE) >>

Thenables == {Thenable(i) : i \in 1..Len(ThenableTable)}

\* what reading x.then yielded, as a value
ThenOf(x) == [k |-> "then", i |-> x.i]

\* the class Object.prototype.toString reports for a value
ClassOf(val) ==
  CASE val.k = "thenable" -> ThenableTable[val.i].tag
    [] val.k = "then" -> ThenableTable[val.i].thenTag
    [] val.k = "plain" -> "Number"
    [] val.k = "null" -> "Null"
    [] val.k = "undefined" -> "Undefined"
    [] val.k \in {"error", "TypeError"} -> "Error"
    [] OTHER -> "Object"

\* core.js:6-8
getType(val) == "[object " \o ClassOf(val) \o "]"

VARIABLES
  promises,    \* the ZPromise objects, in order of construction
  reactions,   \* one record per then call: the closure then's executor builds
  timers,      \* the setTimeout queue, oldest first
  calls,       \* one record per invocation of a foreign then: its called flag
  fired,       \* the reactions whose handler was invoked, in order of invocation
  uncaught     \* exceptions that left the core uncaught

vars == << promises, reactions, timers, calls, fired, uncaught >>

\* core.js:145-148, the fields the constructor sets; user tells a promise made
\* by caller code (whose continuations the caller may keep, as deferred() does)
\* from one made inside then.  first is the first call of one of the promise's
\* continuations, late tells whether a continuation was called after it,
\* cycle whether resolveNextPromise was called with the promise as p and as x,
\* thrown the exception the promise's executor threw and thrownAt the
\* PromiseState at that throw
NewPromise(user) ==
  [PromiseState |-> "pending", PromiseResult |-> Null,
   onFulfilledCallbacks |-> << >>, onRejectedCallbacks |-> << >>, user |-> user,
   first |-> [op |-> "none", v |-> Null], late |-> FALSE, cycle |-> FALSE,
   thrown |-> NoExc, thrownAt |-> "none"]

\* F(x), with x evaluated once, before F: a statement's result is computed
\* once, however often the following statements read it
Strict(x, F(_)) == CHOOSE y \in {F(v) : v \in {x}} : TRUE

\* the machine state as one value, so that synchronous code is a function on it;
\* regNow and settledNow are the reactions registered and the promises settled
\* so far in the current task, exc is the exception that is propagating and ret
\* the value the last handler returned
St ==
  [promises |-> promises, reactions |-> reactions, timers |-> timers,
   calls |-> calls, fired |-> fired, uncaught |-> uncaught,
   regNow |-> {}, settledNow |-> {}, exc |-> NoExc, ret |-> Undefined]

Init ==
  /\ promises = << >>
  /\ reactions = << >>
  /\ timers = << >>
  /\ calls = << >>
  /\ fired = << >>
  /\ uncaught = {}

(***************************************************************************)
(* ZPromise.resolve and ZPromise.reject.  A queued callback is the closure *)
(* then pushed; calling it does one setTimeout, so draining a queue        *)
(* appends one timer per callback, in queue order.                         *)
(***************************************************************************)
\* Drain with a fault: the newest callback first
DrainReversed(cbs, kind) == [j \in 1..Len(cbs) |-> [rid |-> cbs[Len(cbs) + 1 - j], kind |-> kind]]

Drain(cbs, kind) == [j \in 1..Len(cbs) |-> [rid |-> cbs[j], kind |-> kind]]

\* a continuation of p is called
NoteCall(st, p, ev) ==
  Strict(st, LAMBDA s :
    IF s.promises[p].first.op = "none" THEN [s EXCEPT !.promises[p].first = ev]
    ELSE [s EXCEPT !.promises[p].late = TRUE])

\* IsPending with a fault: a fulfilled promise can be settled again
IsPendingOrFulfilled(st, p) == st.promises[p].PromiseState \in {"pending", "fulfilled"}

\* IsPending with a fault: the test is missing
IsPendingAlways(st, p) == TRUE

\* core.js:163, 178
IsPending(st, p) == st.promises[p].PromiseState = "pending"

\* Resolve with a fault: a settled ZPromise passed as data is replaced by its
\* result
ResolveUnwrapping(st, p, data) ==
  LET s0 == NoteCall(st, p, Ev("res", data))
      v == IF data.k = "zp" /\ data.i # p /\ ~IsPending(s0, data.i)
           THEN s0.promises[data.i].PromiseResult ELSE data
  IN  IF IsPending(s0, p)
      THEN [s0 EXCEPT !.promises[p].PromiseState = "fulfilled",
                      !.promises[p].PromiseResult = v,
                      !.timers = @ \o Drain(s0.promises[p].onFulfilledCallbacks, "F"),
                      !.settledNow = @ \cup {p}]
      ELSE s0

Resolve(st, p, data) ==
  Strict(NoteCall(st, p, Ev("res", data)), LAMBDA s0 :
    IF IsPending(s0, p)
    THEN [s0 EXCEPT !.promises[p].PromiseState = "fulfilled",
                    !.promises[p].PromiseResult = data,
                    !.timers = @ \o Drain(s0.promises[p].onFulfilledCallbacks, "F"),
                    !.settledNow = @ \cup {p}]
    ELSE s0)

\* Reject with a fault: the first promise is rejected along with p
RejectWithFirst(st, p, reason) ==
  LET s0 == NoteCall(st, p, Ev("rej", reason))
      s1 == IF IsPending(s0, p)
            THEN [s0 EXCEPT !.promises[p].PromiseState = "rejected",
                            !.promises[p].PromiseResult = reason,
                            !.timers = @ \o Drain(s0.promises[p].onRejectedCallbacks, "R"),
                            !.settledNow = @ \cup {p}]
            ELSE s0
  IN  IF IsPending(s1, 1)
      THEN [s1 EXCEPT !.promises[1].PromiseState = "rejected",
                      !.promises[1].PromiseResult = reason]
      ELSE s1

Reject(st, p, reason) ==
  Strict(NoteCall(st, p, Ev("rej", reason)), LAMBDA s0 :
    IF IsPending(s0, p)
    THEN [s0 EXCEPT !.promises[p].PromiseState = "rejected",
                    !.promises[p].PromiseResult = reason,
                    !.timers = @ \o Drain(s0.promises[p].onRejectedCallbacks, "R"),
                    !.settledNow = @ \cup {p}]
    ELSE s0)

(***************************************************************************)
(* ZPromise.then: constructs p and runs the executor of core.js:195-277    *)
(* on the receiver's state.  The reaction record is the closure over       *)
(* (this, onFulfilled, onRejected, p); onFulfilled and onRejected are "fn" *)
(* (typeof is 'function') or "notfn".  target is 0 for handlers of caller  *)
(* code and, for the two handlers resolveNextPromise passes at core.js:46, *)
(* the promise p of that resolveNextPromise call.  at is the receiver's    *)
(* state when then was called; the fields ran, n, arg, out, sync and       *)
(* lateBefore record the handler's invocations: which handler, how many    *)
(* times, its argument, what it did, whether it ran inside the task that   *)
(* called then or settled the receiver, and whether a continuation of the  *)
(* settled receiver had been called again by then.                         *)
(***************************************************************************)
NewReaction(recv, p, onFulfilled, onRejected, target, at) ==
  [recv |-> recv, p |-> p, onFulfilled |-> onFulfilled, onRejected |-> onRejected,
   target |-> target, at |-> at, ran |-> "no", n |-> 0, arg |-> Null,
   out |-> [type |-> "none", v |-> Null], sync |-> FALSE, lateBefore |-> FALSE]

RECURSIVE RunReaction(_, _, _, _)

\* ThenSettled with a fault: the body runs inside then, without setTimeout
ThenSettledSync(st, rid, kind) == RunReaction(st, rid, kind, [type |-> "return", v |-> Plain(1)])

ThenSettled(st, rid, kind) == [st EXCEPT !.timers = Append(@, [rid |-> rid, kind |-> kind])]

\* ThenPending with a fault: the fulfilment callback is pushed twice
ThenPendingTwice(st, recv, rid) ==
  [st EXCEPT !.promises[recv].onFulfilledCallbacks = Append(Append(@, rid), rid),
             !.promises[recv].onRejectedCallbacks = Append(@, rid)]

ThenPending(st, recv, rid) ==
  [st EXCEPT !.promises[recv].onFulfilledCallbacks = Append(@, rid),
             !.promises[recv].onRejectedCallbacks = Append(@, rid)]

Then(st, recv, onFulfilled, onRejected, target) ==
  LET p == Len(st.promises) + 1
      rid == Len(st.reactions) + 1
      state == st.promises[recv].PromiseState
      s1 == [st EXCEPT !.promises = Append(@, NewPromise(FALSE)),
                       !.reactions = Append(@, NewReaction(recv, p, onFulfilled, onRejected,
                                                           target, state)),
                       !.regNow = @ \cup {rid}]
  IN  CASE state = "fulfilled" -> ThenSettled(s1, rid, "F")
        [] state = "rejected" -> ThenSettled(s1, rid, "R")
        [] OTHER -> ThenPending(s1, recv, rid)

\* Adopt with a fault: p is fulfilled with the ZPromise x
AdoptStored(st, p, x) == Resolve(st, p, x)

\* Adopt with a fault: reject is not passed to x.then
AdoptFulfilmentOnly(st, p, x) == Then(st, x.i, "fn", "notfn", p)

\* core.js:46: x.then with the two handlers that settle p
Adopt(st, p, x) == Then(st, x.i, "fn", "fn", p)

(***************************************************************************)
(* resolveNextPromise(p, x, resolve, reject), where resolve and reject are *)
(* always the continuations of p.  An exception leaving a function is the  *)
(* field exc of the state it returns.                                      *)
(***************************************************************************)
NewCall(x, target) == [x |-> x, target |-> target, called |-> FALSE, acted |-> 0,
                       first |-> Ev("none", Null), late |-> FALSE]

\* first is the first thing a foreign then did with its continuations (or its
\* throw), late tells whether it did anything after that
NoteFirst(st, cid, ev) ==
  IF st.calls[cid].first.op = "none" THEN [st EXCEPT !.calls[cid].first = ev]
  ELSE [st EXCEPT !.calls[cid].late = TRUE]

\* Called with a fault: the guard is missing
CalledNever(st, cid) == FALSE

\* core.js:76-78, 82-84, 94-96: the called guard shared by the three
Called(st, cid) == st.calls[cid].called

SetCalled(st, cid) == [st EXCEPT !.calls[cid].called = TRUE, !.calls[cid].acted = @ + 1]

RECURSIVE ResolveNextPromise(_, _, _)
RECURSIVE RunSync(_, _, _, _)
RECURSIVE OnInner(_, _, _)

\* core.js:81-86
OnErr(st, cid, reason) ==
  LET s0 == NoteFirst(st, cid, Ev("rej", reason))
  IN  IF Called(s0, cid) THEN s0
      ELSE Reject(SetCalled(s0, cid), s0.calls[cid].target, reason)

\* core.js:75-80
OnInner(st, cid, data) ==
  LET s0 == NoteFirst(st, cid, Ev("res", data))
  IN  IF Called(s0, cid) THEN s0
      ELSE ResolveNextPromise(SetCalled(s0, cid), s0.calls[cid].target, data)

\* the body of a foreign then: it calls its continuations in script order; an
\* exception thrown by a continuation propagates out of the body
RunSync(st, cid, evs, j) ==
  IF j > Len(evs) THEN st
  ELSE LET v == IF evs[j].v = Self THEN ZP(st.calls[cid].target) ELSE evs[j].v
           s1 == IF evs[j].op = "res" THEN OnInner(st, cid, v) ELSE OnErr(st, cid, v)
       IN  IF s1.exc # NoExc THEN s1 ELSE RunSync(s1, cid, evs, j + 1)

\* core.js:88-98
CatchThenCall(st, cid, p, error) ==
  LET s0 == NoteFirst([st EXCEPT !.exc = NoExc], cid, Ev("throw", error))
  IN  IF Called(s0, cid) THEN s0
      ELSE Reject(SetCalled(s0, cid), p, error)

\* core.js:60-98, getType(thenFunc) is '[object Function]'; thenFunc.call
\* throws a TypeError when thenFunc cannot be called
CallThenFunc(st, p, x) ==
  LET t == ThenableTable[x.i]
      cid == Len(st.calls) + 1
      s1 == [st EXCEPT !.calls = Append(@, NewCall(x, p))]
      s2 == RunSync(s1, cid, t.sync, 1)
  IN  IF t.get # "fn" THEN CatchThenCall(s1, cid, p, TypeErrorNotFunction)
      ELSE IF s2.exc # NoExc THEN CatchThenCall(s2, cid, p, s2.exc)
      ELSE IF t.throws THEN CatchThenCall(s2, cid, p, t.err)
      ELSE s2

\* ReadThenThrows with a fault: the exception of the getter is dropped
ReadThenThrowsDropped(st, p, x, error) == Resolve(st, p, x)

\* core.js:54-60, 99-104: reading x.then throws; the catch rejects p and does
\* not return, thenFunc is still undefined, and the else branch calls resolve(x)
ReadThenThrows(st, p, x, error) == Resolve(Reject(st, p, error), p, x)

\* core.js:47
IsObjectOrFunction(x) == getType(x) = "[object Object]" \/ getType(x) = "[object Function]"

ResolveNextPromise(st, p, x) ==
  IF x = ZP(p) THEN [st EXCEPT !.exc = TypeErrorCycle, !.promises[p].cycle = TRUE]
  ELSE IF x.k = "zp" THEN Adopt(st, p, x)
  ELSE IF IsObjectOrFunction(x)
  THEN LET t == ThenableTable[x.i]
       IN  CASE t.get = "throws" -> ReadThenThrows(st, p, x, t.err)
             [] getType(ThenOf(x)) = "[object Function]" -> CallThenFunc(st, p, x)
             [] OTHER -> Resolve(st, p, x)
  ELSE Resolve(st, p, x)

(***************************************************************************)
(* The timer body of core.js:197-220, 224-239, 248-259, 263-274: the four  *)
(* bodies are the same code up to the handler they pick.  hb is what a     *)
(* handler of caller code does when invoked: [type |-> "return", v] or     *)
(* [type |-> "throw", v].                                                  *)
(***************************************************************************)
NoteInvoked(st, rid, kind, arg, hb) ==
  LET r == st.reactions[rid]
  IN  [st EXCEPT !.reactions[rid].ran = kind,
                 !.reactions[rid].n = @ + 1,
                 !.reactions[rid].arg = arg,
                 !.reactions[rid].out = hb,
                 !.reactions[rid].sync = (rid \in st.regNow) \/ (r.recv \in st.settledNow),
                 !.reactions[rid].lateBefore = st.promises[r.recv].late,
                 !.fired = Append(@, rid)]

\* the handler's call: the state after it, with the returned value in ret
Handler(st, r, kind, arg, hb) ==
  IF r.target = 0
  THEN [st EXCEPT !.exc = IF hb.type = "throw" THEN hb.v ELSE NoExc, !.ret = hb.v]
  ELSE IF kind = "F"
  THEN [ResolveNextPromise(st, r.target, arg) EXCEPT !.ret = Undefined]
  ELSE [Reject(st, r.target, arg) EXCEPT !.ret = Undefined]

\* CatchReject with a fault: the exception fulfils p
CatchResolve(st, p) ==
  IF st.exc # NoExc THEN Resolve([st EXCEPT !.exc = NoExc], p, st.exc) ELSE st

\* catch (error) { reject(error) }
CatchReject(st, p) ==
  Strict(st, LAMBDA s :
    IF s.exc # NoExc THEN Reject([s EXCEPT !.exc = NoExc], p, s.exc) ELSE s)

\* PassThrough with a fault: the receiver's value goes through
\* resolveNextPromise
PassThroughResolved(st, p, kind, result) ==
  IF kind = "F" THEN [ResolveNextPromise(st, p, result) EXCEPT !.exc = NoExc]
  ELSE Reject(st, p, result)

PassThrough(st, p, kind, result) ==
  IF kind = "F" THEN Resolve(st, p, result) ELSE Reject(st, p, result)

RunReaction(st, rid, kind, hb) ==
  LET r == st.reactions[rid]
      result == st.promises[r.recv].PromiseResult
      h == IF kind = "F" THEN r.onFulfilled ELSE r.onRejected
  IN  IF h = "fn"
      THEN Strict(Handler(NoteInvoked(st, rid, kind, result, hb), r, kind, result, hb),
                  LAMBDA s1 :
                    IF s1.exc # NoExc THEN CatchReject(s1, r.p)
                    ELSE CatchReject(ResolveNextPromise(s1, r.p, s1.ret), r.p))
      ELSE PassThrough(st, r.p, kind, result)

(***************************************************************************)
(* The tasks.                                                              *)
(***************************************************************************)
\* the step's effect on the variables: they take the values the task's code
\* leaves in after; a task runs only if the objects it makes fit the bounds
Commit(after) ==
  \E s \in {after} :
    /\ Len(s.promises) <= MaxPromises
    /\ Len(s.calls) <= MaxCalls
    /\ promises' = s.promises
    /\ reactions' = s.reactions
    /\ timers' = s.timers
    /\ calls' = s.calls
    /\ fired' = s.fired
    /\ uncaught' = s.uncaught

UserPromises == {p \in 1..Len(promises) : promises[p].user}
UserThens == {r \in 1..Len(reactions) : reactions[r].target = 0}
CallerObjects == Cardinality(UserPromises) + Cardinality(UserThens)

\* the ZPromise objects caller code holds: those it constructed and those
\* its then calls returned (the promise of the x.then call at core.js:46 is
\* dropped)
AllPromises == {ZP(p) : p \in UserPromises} \cup {ZP(reactions[r].p) : r \in UserThens}

\* the values caller code passes around
Resolutions == {Plain(2), Thenable(1)} \cup AllPromises
Reasons == {Err(2)}

\* what an executor does before it returns: the continuation calls it makes,
\* and whether it then throws err
Executors ==
  {[sync |-> c, throws |-> t, err |-> Err(1)] :
     c \in {<< >>, << Ev("res", Plain(1)) >>, << Ev("rej", Err(2)) >>}, t \in BOOLEAN}

RECURSIVE RunExecutor(_, _, _, _)
RunExecutor(st, p, evs, j) ==
  IF j > Len(evs) THEN st
  ELSE RunExecutor(IF evs[j].op = "res" THEN Resolve(st, p, evs[j].v)
                   ELSE Reject(st, p, evs[j].v), p, evs, j + 1)

\* the executor throws error
ExecutorThrows(st, p, error) ==
  [st EXCEPT !.exc = error, !.promises[p].thrown = error,
             !.promises[p].thrownAt = st.promises[p].PromiseState]

\* CatchExecutor with a fault: the exception settles a settled promise again
CatchExecutorOverwrite(st, p) ==
  IF st.exc # NoExc
  THEN [st EXCEPT !.exc = NoExc, !.promises[p].PromiseState = "rejected",
                  !.promises[p].PromiseResult = st.exc]
  ELSE st

\* core.js:152-154
CatchExecutor(st, p) ==
  IF st.exc # NoExc THEN Reject([st EXCEPT !.exc = NoExc], p, st.exc) ELSE st

\* core.js:142-155 with a function as executor
Constructor(st, ex) ==
  LET p == Len(st.promises) + 1
      s1 == [st EXCEPT !.promises = Append(@, NewPromise(TRUE))]
      s2 == RunExecutor(s1, p, ex.sync, 1)
  IN  CatchExecutor(IF ex.throws THEN ExecutorThrows(s2, p, ex.err) ELSE s2, p)

\* what a piece of code throws goes to its caller; thrown out of a task it is
\* uncaught
Escapes(st) ==
  IF st.exc # NoExc THEN [st EXCEPT !.uncaught = @ \cup {st.exc}, !.exc = NoExc] ELSE st

\* caller code: new ZPromise(executor)
ConstructWith(executors) ==
  /\ CallerObjects < MaxCaller
  /\ \E ex \in executors : Commit(Escapes(Constructor(St, ex)))

Construct == ConstructWith(Executors)

\* caller code calls a resolve continuation it kept (test/adapter.js:8)
CallResolveWith(values) ==
  \E p \in UserPromises, v \in values : Commit(Resolve(St, p, v))

CallResolve == CallResolveWith(Resolutions)

\* caller code calls a reject continuation it kept (test/adapter.js:9)
CallReject ==
  \E p \in UserPromises, v \in Reasons : Commit(Reject(St, p, v))

\* caller code: recv.then(onFulfilled, onRejected)
CallThenWith(handlers) ==
  /\ CallerObjects < MaxCaller
  /\ \E recv \in 1..Len(promises), f \in handlers, g \in handlers :
       Commit(Then(St, recv, f, g, 0))

CallThen == CallThenWith({"fn", "notfn"})

\* what the handler of the timer at the head of the queue may do, when the
\* handlers of caller code return a value of returns or throw one of throws
HandlerOutcomes(returns, throws) ==
  LET t == timers[1]
      r == reactions[t.rid]
      h == IF t.kind = "F" THEN r.onFulfilled ELSE r.onRejected
  IN  IF r.target = 0 /\ h = "fn"
      THEN {[type |-> "return", v |-> v] : v \in returns}
           \cup {[type |-> "throw", v |-> v] : v \in throws}
      ELSE {[type |-> "none", v |-> Null]}

\* the event loop runs the oldest timer
RunTimerWith(returns, throws) ==
  /\ timers # << >>
  /\ \E hb \in HandlerOutcomes(returns, throws) :
       Commit(Escapes(RunReaction([St EXCEPT !.timers = Tail(@)],
                                  timers[1].rid, timers[1].kind, hb)))

\* the plain value a handler of caller code returns, such as data + ' world'
Returned == Plain(3)

RunTimer == RunTimerWith({Returned} \cup Thenables \cup AllPromises, {Err(1)})

\* the script of src/unnamed/part_000 (and of the README), one task:
\* z = new ZPromise((resolve, reject) => { resolve('hello') }) and
\* z.then(f).then(g), with 'hello' as Plain(1)
Demo ==
  /\ CallerObjects + 3 <= MaxCaller
  /\ LET s1 == Constructor(St, [sync |-> << Ev("res", Plain(1)) >>, throws |-> FALSE,
                                err |-> Err(1)])
         s2 == Then(s1, Len(s1.promises), "fn", "notfn", 0)
         s3 == Then(s2, Len(s2.promises), "fn", "notfn", 0)
     IN  Commit(Escapes(s3))

\* a foreign thenable calls, from a later task, a continuation it kept; what
\* the continuation throws goes to the thenable's code, which has no handler
ThenableCalls ==
  \E cid \in 1..Len(calls) :
    \/ \E v \in {Plain(2), ZP(calls[cid].target)} \cup {ZP(p) : p \in UserPromises} :
         Commit(Escapes(OnInner(St, cid, v)))
    \/ Commit(Escapes(OnErr(St, cid, Err(1))))

Next ==
  \/ Construct
  \/ CallResolve
  \/ CallReject
  \/ CallThen
  \/ RunTimer
  \/ ThenableCalls
  \/ Demo

Spec == Init /\ [][Next]_vars

(***************************************************************************)
(* The callers that only chain ZPromises: executors keep the continuations *)
(* or fulfil at once, every then call passes two functions, and a handler  *)
(* returns a plain value or a ZPromise.  The event loop runs every timer   *)
(* (setTimeout without delay).                                             *)
(***************************************************************************)
ChainConstruct ==
  ConstructWith({[sync |-> c, throws |-> FALSE, err |-> Err(1)] :
                   c \in {<< >>, << Ev("res", Plain(1)) >>}})

ChainResolve == CallResolveWith({Plain(2)} \cup AllPromises)

ChainThen == CallThenWith({"fn"})

ChainTimer == RunTimerWith({Returned} \cup AllPromises, {})

ChainNext ==
  \/ ChainConstruct
  \/ ChainResolve
  \/ CallReject
  \/ ChainThen
  \/ ChainTimer
  \/ Demo

FairSpec == Init /\ [][ChainNext]_vars /\ WF_vars(ChainTimer)

(***************************************************************************)
(* Properties.                                                             *)
(***************************************************************************)
Promises == 1..Len(promises)
Reactions == 1..Len(reactions)
Settled(p) == promises[p].PromiseState # "pending"
Is(p, state, result) ==
  promises[p].PromiseState = state /\ promises[p].PromiseResult = result

\* C1: a ZPromise starts pending, leaves pending at most once, to fulfilled or
\* rejected with the value of the first continuation call, and from then on
\* no step changes its PromiseState or PromiseResult, whatever continuation
\* calls follow.
C1_SettleOnce ==
  [][\A p \in Promises :
       /\ promises[p].PromiseState \in {"pending", "fulfilled", "rejected"}
       /\ ~Settled(p) => promises[p].PromiseResult = Null /\ promises[p].first.op = "none"
       /\ promises'[p].PromiseState # "pending" =>
            /\ promises'[p].PromiseState =
                 IF promises'[p].first.op = "res" THEN "fulfilled" ELSE "rejected"
            /\ promises'[p].PromiseResult = promises'[p].first.v
       /\ Settled(p) =>
            /\ promises'[p].PromiseState = promises[p].PromiseState
            /\ promises'[p].PromiseResult = promises[p].PromiseResult]_vars

\* a settled promise one of whose continuations was called again
C1_Witness ==
  \E p \in Promises, q \in Promises :
    /\ promises[p].PromiseState = "fulfilled" /\ promises[p].late
    /\ promises[q].PromiseState = "rejected" /\ promises[q].late

\* C2: no handler passed to then is invoked inside the task that made the then
\* call or inside the task that settled the receiver.
C2_NeverSynchronous == \A r \in Reactions : reactions[r].n > 0 => ~reactions[r].sync

\* a handler registered on a settled receiver and one registered on a pending
\* receiver have both run
C2_Witness ==
  \E r \in Reactions, q \in Reactions :
    /\ reactions[r].n > 0 /\ reactions[r].at = "fulfilled"
    /\ reactions[q].n > 0 /\ reactions[q].at = "pending"

\* C3: whenever resolveNextPromise is called with the target as value, the
\* target is rejected with the chaining-cycle TypeError.
C3_SelfResolutionRejects ==
  \A p \in Promises : promises[p].cycle => Is(p, "rejected", TypeErrorCycle)

\* the case of C3 the code handles: the handler returns the promise its own
\* then call returned
C3_DirectReturn ==
  \A r \in Reactions :
    reactions[r].n > 0 /\ reactions[r].target = 0
      /\ reactions[r].out = [type |-> "return", v |-> ZP(reactions[r].p)]
      => Is(reactions[r].p, "rejected", TypeErrorCycle)

\* the value at the end of the chain of ZPromises fulfilled with ZPromises
\* that starts at c
RECURSIVE Unwound(_, _)
Unwound(c, fuel) ==
  IF fuel > 0 /\ promises[c].PromiseState = "fulfilled" /\ promises[c].PromiseResult.k = "zp"
  THEN Unwound(promises[c].PromiseResult.i, fuel - 1)
  ELSE c

\* the handler of then call r, made by caller code, returned a ZPromise other
\* than the promise the call returned
Adopts(r) ==
  /\ r \in Reactions
  /\ reactions[r].target = 0
  /\ reactions[r].out.type = "return"
  /\ reactions[r].out.v.k = "zp"
  /\ reactions[r].out.v.i # reactions[r].p

\* the promise whose outcome the promise of r is to take
Source(r) == Unwound(reactions[r].out.v.i, MaxPromises)

\* e is settled with a value that needs no further unwinding
Final(e) == Settled(e) /\ promises[e].PromiseResult.k \notin {"zp", "thenable"}

\* the model can construct no further ZPromise
Exhausted == Len(promises) = MaxPromises

\* the chain of the ZPromise that the handler of r returned has ended
AdoptionDue(r) == IF Adopts(r) THEN Final(Source(r)) ELSE FALSE

\* the promise of r is settled, or the model can go no further
AdoptionDone(r) == IF r \in Reactions THEN Settled(reactions[r].p) \/ Exhausted ELSE FALSE

\* a settled promise of r has the state and the result of the end of the chain
AdoptionSound ==
  \A r \in Reactions :
    Adopts(r) /\ Settled(reactions[r].p) /\ promises[Source(r)].PromiseResult.k # "thenable"
      => /\ Final(Source(r))
         /\ Is(reactions[r].p, promises[Source(r)].PromiseState,
               promises[Source(r)].PromiseResult)

C5_FirstSettlementWins ==
  \A c \in 1..Len(calls) :
    LET e == calls[c].first
        t == calls[c].target
    IN  /\ calls[c].acted <= 1
        /\ e.op \in {"rej", "throw"} => Is(t, "rejected", e.v)
        /\ e.op = "res" /\ e.v.k = "plain" => Is(t, "fulfilled", e.v)
        /\ e.op = "res" /\ e.v.k = "zp" /\ e.v.i # t /\ ~Settled(e.v.i) => ~Settled(t)

\* a foreign then called onInner with a pending ZPromise, then onErr, then
\* threw; the ZPromise was fulfilled later and the target with it
C5_Witness ==
  \E c \in 1..Len(calls) :
    /\ calls[c].first = Ev("res", ZP(1))
    /\ calls[c].late
    /\ calls[c].x = Thenable(8)
    /\ Is(1, "fulfilled", Plain(2))
    /\ Is(calls[c].target, "fulfilled", Plain(2))

\* C6: the handlers registered on one receiver are invoked in the order of
\* their then calls (the timers run in FIFO order).
C6_RegistrationOrder ==
  \A i \in 1..Len(fired), j \in 1..Len(fired) :
    i < j /\ reactions[fired[i]].recv = reactions[fired[j]].recv => fired[i] < fired[j]

\* two handlers of one receiver have run, the first registered while the
\* receiver was pending and the second after it had settled
C6_Witness ==
  \E i \in 1..Len(fired), j \in 1..Len(fired) :
    /\ i < j
    /\ reactions[fired[i]].recv = reactions[fired[j]].recv
    /\ reactions[fired[i]].at = "pending"
    /\ reactions[fired[j]].at # "pending"

\* two handlers registered on one pending receiver have both run
C6_BothPending ==
  \E i \in 1..Len(fired), j \in 1..Len(fired) :
    /\ i < j
    /\ reactions[fired[i]].recv = reactions[fired[j]].recv
    /\ reactions[fired[i]].at = "pending"
    /\ reactions[fired[j]].at = "pending"

\* C7: of the two handlers of one then call at most one is invoked, at most
\* once: onFulfilled only on a fulfilled receiver, onRejected only on a
\* rejected one, with the value of the receiver's first settlement.
C7_OneHandlerOnce ==
  \A r \in Reactions :
    LET recv == reactions[r].recv
    IN  /\ reactions[r].n <= 1
        /\ reactions[r].n = 1 =>
             /\ promises[recv].PromiseState =
                  IF reactions[r].ran = "F" THEN "fulfilled" ELSE "rejected"
             /\ reactions[r].arg = promises[recv].first.v
             /\ reactions[r].arg = promises[recv].PromiseResult

\* a handler has run on a receiver whose continuations were called again
\* before the handler's task
C7_Witness ==
  \E r \in Reactions :
    /\ reactions[r].n = 1
    /\ reactions[r].ran = "R"
    /\ reactions[r].lateBefore

\* C8: when the handler for the receiver's outcome is not a function, the
\* promise then returned takes the receiver's state and the identical
\* PromiseResult, also when that result is a ZPromise or a thenable.
C8_PassThrough ==
  \A r \in Reactions :
    LET recv == reactions[r].recv
        p == reactions[r].p
    IN  /\ reactions[r].onRejected = "notfn" /\ promises[recv].PromiseState = "rejected"
             /\ Settled(p) => Is(p, "rejected", promises[recv].PromiseResult)
        /\ reactions[r].onFulfilled = "notfn" /\ promises[recv].PromiseState = "fulfilled"
             /\ Settled(p) => Is(p, "fulfilled", promises[recv].PromiseResult)

\* a rejection has passed through a then call without onRejected, made while
\* the receiver was pending
C8_Witness ==
  \E r \in Reactions :
    /\ reactions[r].onRejected = "notfn"
    /\ reactions[r].onFulfilled = "fn"
    /\ reactions[r].at = "pending"
    /\ promises[reactions[r].recv].PromiseState = "rejected"
    /\ Settled(reactions[r].p)

\* a fulfilment with a pending ZPromise as value has passed through a then
\* call without onFulfilled
C8_FulfilledWithPromise ==
  \E q \in Reactions :
    /\ reactions[q].onFulfilled = "notfn"
    /\ promises[reactions[q].recv].PromiseState = "fulfilled"
    /\ promises[reactions[q].recv].PromiseResult.k = "zp"
    /\ ~Settled(promises[reactions[q].recv].PromiseResult.i)
    /\ Settled(reactions[q].p)

\* C9: when the handler that runs throws e, the promise then returned is
\* rejected with e.
C9_HandlerThrows ==
  \A r \in Reactions :
    reactions[r].n > 0 /\ reactions[r].out.type = "throw" =>
      Is(reactions[r].p, "rejected", reactions[r].out.v)

\* a handler registered on a settled receiver and one registered on a pending
\* receiver have both thrown
C9_Witness ==
  \E r \in Reactions, q \in Reactions :
    /\ reactions[r].out.type = "throw" /\ reactions[r].at = "pending"
    /\ reactions[r].ran = "R"
    /\ reactions[q].out.type = "throw" /\ reactions[q].at = "fulfilled"

\* C10 as claimed: a promise whose resolve continuation is called first, with
\* a ZPromise or a foreign thenable, does not become fulfilled with that object.
IsThenable(v) == v.k = "zp" \/ (v.k = "thenable" /\ ThenableTable[v.i].get = "fn")

C10_ResolveAdopts ==
  \A p \in UserPromises :
    promises[p].first.op = "res" /\ IsThenable(promises[p].first.v)
      => ~Is(p, "fulfilled", promises[p].first.v)

\* C10 as the code has it: the resolve continuation of a constructed promise
\* stores its argument as it is, and resolveNextPromise never has a
\* constructed promise as its target.
C10_ResolveStores ==
  /\ \A p \in UserPromises :
       promises[p].first.op = "res" => Is(p, "fulfilled", promises[p].first.v)
  /\ \A r \in Reactions : reactions[r].target \notin UserPromises
  /\ \A c \in 1..Len(calls) : calls[c].target \notin UserPromises

\* a constructed promise is fulfilled with a rejected ZPromise, another with a
\* foreign thenable whose then was never called
C10_Witness ==
  \E p \in UserPromises, q \in UserPromises, t \in UserPromises :
    /\ Is(p, "fulfilled", ZP(q))
    /\ promises[q].PromiseState = "rejected"
    /\ Is(t, "fulfilled", Thenable(1))
    /\ calls = << >>

\* C11: an exception e thrown by the executor rejects the constructed promise
\* with e when the promise is pending at the throw; when the executor had
\* settled the promise before, the promise keeps that settlement and e is
\* dropped; e never leaves the constructor.
C11_ExecutorThrows ==
  \A p \in UserPromises :
    promises[p].thrown # NoExc =>
      /\ promises[p].thrownAt = "pending" => Is(p, "rejected", promises[p].thrown)
      /\ promises[p].thrownAt # "pending" =>
           /\ promises[p].PromiseState = promises[p].thrownAt
           /\ promises[p].PromiseResult = promises[p].first.v
           /\ promises[p].PromiseResult # promises[p].thrown
      /\ promises[p].thrown \notin uncaught

\* one executor threw after it had fulfilled its promise, one after it had
\* rejected it, one without settling it
C11_Witness ==
  \E p \in UserPromises, q \in UserPromises, t \in UserPromises :
    /\ promises[p].thrownAt = "fulfilled"
    /\ promises[q].thrownAt = "rejected"
    /\ promises[t].thrownAt = "pending"

\* C12: no exception leaves the core uncaught: every error raised in an
\* executor, in a handler, by a foreign then or by resolveNextPromise itself
\* becomes a rejection.
C12_NothingEscapes == uncaught = {}

\* then call r1, by caller code on a constructed promise that was fulfilled
\* at the call, had its onFulfilled run and return a plain value, and then
\* call r2 is a caller's then call with an onFulfilled on the promise of r1
Chained(r1, r2) ==
  IF r1 \in Reactions /\ r2 \in Reactions
  THEN /\ reactions[r1].target = 0
       /\ promises[reactions[r1].recv].user
       /\ reactions[r1].at = "fulfilled"
       /\ reactions[r1].ran = "F"
       /\ reactions[r1].out.type = "return"
       /\ reactions[r1].out.v.k = "plain"
       /\ reactions[r2].target = 0
       /\ reactions[r2].recv = reactions[r1].p
       /\ reactions[r2].onFulfilled = "fn"
  ELSE FALSE

\* g has run, or the model can go no further
ChainedDone(r2) == IF r2 \in Reactions THEN reactions[r2].n = 1 \/ Exhausted ELSE FALSE

\* g runs at most once, with what f returned, in a task of its own
ChainedSound ==
  \A r1 \in Reactions, r2 \in Reactions :
    Chained(r1, r2) =>
      /\ reactions[r2].n <= 1
      /\ reactions[r2].n = 1 =>
           /\ reactions[r2].ran = "F"
           /\ reactions[r2].arg = reactions[r1].out.v
           /\ ~reactions[r2].sync
           /\ Len(SelectSeq(fired, LAMBDA x : x = r2)) = 1

\* C13: for a.then(f).then(g), a fulfilled in its executor and f returning a
\* plain value w, g is invoked exactly once, with w, and not inside the task
\* that constructed a and made the two then calls.
C13_DemoChain ==
  /\ []ChainedSound
  /\ \A r1 \in 1..MaxPromises, r2 \in 1..MaxPromises : Chained(r1, r2) ~> ChainedDone(r2)

\* the script ran in one task and g has run, with what f returned
C13_Witness ==
  /\ Len(promises) = 3
  /\ promises[1].first = Ev("res", Plain(1))
  /\ Chained(1, 2)
  /\ reactions[2].at = "pending"
  /\ reactions[1].onRejected = "notfn" /\ reactions[2].onRejected = "notfn"
  /\ reactions[2].n = 1
  /\ reactions[2].arg = Returned
  /\ fired = << 1, 2 >>

\* the handler of then call r, made by caller code, returned x
Returns(r, x) ==
  /\ reactions[r].target = 0
  /\ reactions[r].n > 0
  /\ reactions[r].out = [type |-> "return", v |-> x]

\* C14: when reading x.then throws e, the target is rejected with e, x's then
\* is never invoked and the target is never fulfilled with x.
C14_ReadThenThrows ==
  \A r \in Reactions, i \in 1..Len(ThenableTable) :
    Returns(r, Thenable(i)) /\ ThenableTable[i].get = "throws" =>
      /\ Is(reactions[r].p, "rejected", ThenableTable[i].err)
      /\ \A c \in 1..Len(calls) : calls[c].x # Thenable(i)

\* a handler returned an object whose then getter throws; the promise is
\* rejected and the resolve(x) that followed the catch was ignored
C14_Witness ==
  \E r \in Reactions :
    /\ Returns(r, Thenable(6))
    /\ promises[reactions[r].p].first = Ev("rej", Err(1))
    /\ promises[reactions[r].p].late
    /\ promises[reactions[r].p].PromiseState = "rejected"

\* x has no then that can be called
NonThenable(x) ==
  \/ x.k \in {"plain", "null", "undefined"}
  \/ x.k = "thenable" /\ ThenableTable[x.i].get = "notfn"

\* C15: a value that is not a thenable (a non-object, or an object or
\* function whose then cannot be called) fulfils the target with that value.
C15_NonThenableFulfils ==
  \A r \in Reactions :
    reactions[r].n > 0 /\ reactions[r].target = 0 /\ reactions[r].out.type = "return"
      /\ NonThenable(reactions[r].out.v)
      => Is(reactions[r].p, "fulfilled", reactions[r].out.v)

\* the cases of C15 the code handles: plain values, undefined (what the
\* handlers of core.js:46 return) and objects whose then has a class other
\* than Function
C15_PlainFulfils ==
  \A r \in Reactions :
    /\ reactions[r].n > 0 /\ reactions[r].target = 0 /\ reactions[r].out.type = "return"
         /\ NonThenable(reactions[r].out.v)
         /\ getType(ThenOf(reactions[r].out.v)) # "[object Function]"
         => Is(reactions[r].p, "fulfilled", reactions[r].out.v)
    /\ reactions[r].n > 0 /\ reactions[r].target # 0
         /\ ~promises[reactions[r].target].cycle
         => Is(reactions[r].p, "fulfilled", Undefined)

\* C16: the callback queues of a settled promise are empty.
C16_QueuesEmptyAfterSettlement ==
  \A p \in Promises :
    Settled(p) =>
      /\ promises[p].onFulfilledCallbacks = << >>
      /\ promises[p].onRejectedCallbacks = << >>

\* the part of C16 the code has: then pushes only while the receiver is
\* pending, so the queues of a settled promise no longer change
C16_QueuesFrozenAfterSettlement ==
  [][\A p \in Promises :
       Settled(p) =>
         /\ promises'[p].onFulfilledCallbacks = promises[p].onFulfilledCallbacks
         /\ promises'[p].onRejectedCallbacks = promises[p].onRejectedCallbacks]_vars

\* C17: for every object or function x with a callable then, whatever the
\* class of x or of the then, resolveNextPromise invokes the then and does
\* not fulfil the target with x.
C17_DetectsEveryObject ==
  \A r \in Reactions, i \in 1..Len(ThenableTable) :
    Returns(r, Thenable(i)) /\ ThenableTable[i].get = "fn" =>
      /\ \E c \in 1..Len(calls) : calls[c].x = Thenable(i) /\ calls[c].target = reactions[r].p
      /\ ~Is(reactions[r].p, "fulfilled", Thenable(i))

\* the case of C17 the code handles: x of class Object or Function with a
\* then of class Function
C17_PlainObjects ==
  \A r \in Reactions, i \in 1..Len(ThenableTable) :
    Returns(r, Thenable(i)) /\ ThenableTable[i].get = "fn"
      /\ IsObjectOrFunction(Thenable(i)) /\ ThenableTable[i].thenTag = "Function" =>
      /\ \E c \in 1..Len(calls) : calls[c].x = Thenable(i) /\ calls[c].target = reactions[r].p
      /\ ~Is(reactions[r].p, "fulfilled", Thenable(i))

\* the state or the result of q changes in the step
Changed(q) ==
  \/ promises'[q].PromiseState # promises[q].PromiseState
  \/ promises'[q].PromiseResult # promises[q].PromiseResult

\* the step runs the timer at the head of the queue
TimerRuns ==
  /\ timers # << >>
  /\ Len(timers') >= Len(timers) - 1
  /\ SubSeq(timers', 1, Len(timers) - 1) = Tail(timers)

\* a then call made in the step leaves its receiver as it found it
ThenFrame ==
  \A r \in (1..Len(reactions')) \ Reactions :
    LET recv == reactions'[r].recv
    IN  /\ promises'[recv].PromiseState = reactions'[r].at
        /\ recv \in Promises => ~Changed(recv)

\* a promise of caller code changes only in a step of caller code, alone; a
\* promise made by then changes only in the timer task of a then call that
\* returned it or that has it as the target of an adoption, or when a foreign
\* then called with it as target acts
SettleFrame ==
  \A q \in Promises :
    Changed(q) =>
      /\ promises[q].PromiseState = "pending"
      /\ IF promises[q].user
         THEN /\ \A o \in Promises \ {q} : ~Changed(o)
              /\ fired' = fired
              /\ Len(promises') = Len(promises)
              /\ SubSeq(timers', 1, Len(timers)) = timers
         ELSE \/ /\ TimerRuns
                 /\ q \in {reactions[timers[1].rid].p, reactions[timers[1].rid].target}
              \/ \E c \in 1..Len(calls) : calls[c].target = q /\ calls'[c] # calls[c]

\* C18: a then call does not change its receiver's PromiseState or
\* PromiseResult, and a settlement changes the promise it is made on only:
\* every other promise changes through its own resolve or reject, in a task
\* of its own then chain or adoption.
C18_Frame == [][ThenFrame /\ SettleFrame]_vars

\* a promise of caller code is rejected, the promise of a then call on it
\* has taken the rejection, and another promise of caller code is still
\* pending
C18_Witness ==
  \E r \in Reactions, q \in UserPromises :
    /\ reactions[r].target = 0
    /\ reactions[r].at = "rejected"
    /\ Is(reactions[r].recv, "rejected", Err(2))
    /\ Is(reactions[r].p, "rejected", Err(2))
    /\ q # reactions[r].recv
    /\ ~Settled(q)

\* the proviso of C19 for then call r of caller code: the receiver is settled
\* and the handler for its outcome is missing, or has run and has thrown,
\* returned a non-thenable or returned a ZPromise that is settled
ChainDue(r) ==
  IF r \in Reactions
  THEN LET recv == reactions[r].recv
           h == IF promises[recv].PromiseState = "fulfilled" THEN reactions[r].onFulfilled
                ELSE reactions[r].onRejected
           out == reactions[r].out
       IN  /\ reactions[r].target = 0
           /\ Settled(recv)
           /\ \/ h = "notfn"
              \/ out.type = "throw"
              \/ out.type = "return" /\ out.v.k \notin {"zp", "thenable"}
              \/ out.type = "return" /\ out.v.k = "zp" /\ Settled(out.v.i)
  ELSE FALSE

\* C19: once the receiver of a then call is settled and the handler that
\* runs has thrown, returned a non-thenable or returned a ZPromise that is
\* settled, the promise the call returned eventually leaves pending.
C19_ChainingLiveness == \A r \in 1..MaxPromises : ChainDue(r) ~> AdoptionDone(r)

\* the promise of then call r, made by caller code, is fulfilled with a
\* ZPromise although a handler of r ran
Wrapped(r) ==
  /\ reactions[r].n > 0
  /\ promises[reactions[r].p].PromiseState = "fulfilled"
  /\ promises[reactions[r].p].PromiseResult.k = "zp"

\* C20: a promise returned by then whose handler ran is never fulfilled with
\* a ZPromise; a promise fulfilled with a ZPromise is one of caller code,
\* fulfilled through its resolve continuation, or the promise of a then call
\* without onFulfilled on a receiver fulfilled with that ZPromise.
C20_Unwrapping ==
  /\ \A r \in Reactions : ~Wrapped(r)
  /\ \A p \in Promises :
       promises[p].PromiseState = "fulfilled" /\ promises[p].PromiseResult.k = "zp" =>
         \/ promises[p].user /\ promises[p].first = Ev("res", promises[p].PromiseResult)
         \/ \E r \in Reactions :
              /\ reactions[r].p = p
              /\ reactions[r].onFulfilled = "notfn"
              /\ Is(reactions[r].recv, "fulfilled", promises[p].PromiseResult)

\* a handler was called with a ZPromise, returned a ZPromise that was
\* fulfilled with a ZPromise, and its promise is fulfilled with a plain value
C20_Witness ==
  \E r \in Reactions :
    /\ reactions[r].n = 1
    /\ reactions[r].arg.k = "zp"
    /\ reactions[r].out.type = "return"
    /\ reactions[r].out.v.k = "zp"
    /\ promises[reactions[r].out.v.i].PromiseResult.k = "zp"
    /\ Is(reactions[r].p, "fulfilled", Plain(2))

====
